---- MODULE Spec2Model ----
(***************************************************************************)
(* UniSteg (src/src/UniSteg.py): LSB steganography with an RSA-encrypted   *)
(* placement seed and an RSA-PSS signature.                                *)
(*                                                                         *)
(* The source fixes the RSA modulus at 2048 bits (256 bytes); the literal  *)
(* 2048 of conceal/extract is that width.  The model is parametric in the  *)
(* modulus size (KeyBytes) so that whole calls can be explored; every      *)
(* occurrence of 2048 in the source is KeyBits here.                       *)
(***************************************************************************)
EXTENDS Integers, Sequences, FiniteSets, TLC

\* ---------------------------------------------------------------- bounds
\* RSA modulus size in bytes (256 in the source's key generation).
KeyBytes == 2
\* Longest message handed to conceal, in bytes.
MaxMsgLen == 2
\* Seeds are 0..MaxSeed (the source draws from 0..10^21-1).
MaxSeed == 1
\* OAEP encryption randomness is 0..MaxPad.
MaxPad == 1
\* PSS salt is 0..MaxSalt.
MaxSalt == 1
\* Calls of set_image/set_keys made in one behaviour.
MaxSets == 1
\* Context switches between two calls in flight (SpecThreads).
MaxSwitches == 1
\* Longest byte sequence handed to the bit codec (SpecCodec).
MaxCodecLen == 3

KeyBits == 8 * KeyBytes
Seeds == 0..MaxSeed
Pads == 0..MaxPad
Salts == 0..MaxSalt
KeyIds == {1, 2}
\* Message bytes: NUL, 'h'.
MsgAlphabet == {0, 104}
Objs == {1, 2}

\* Python's None as a key attribute, and an attribute that was never assigned
\* (reading it raises AttributeError).
None == [type |-> "NoneType", id |-> 0]
Unset == [type |-> "unassigned", id |-> 0]
\* An image is its mode and its flattened channel values; NoImage is None.
NoImage == [mode |-> "None", px |-> <<>>]
Rgb(px) == [mode |-> "RGB", px |-> px]
\* An optional message: a returned value or the text an error shows.
Nothing == [some |-> FALSE, bytes |-> <<>>]
Some(b) == [some |-> TRUE, bytes |-> b]

\* ------------------------------------------------------- sequence helpers
RECURSIVE SeqsUpTo(_, _)
SeqsUpTo(S, n) ==
  IF n = 0 THEN {<<>>}
  ELSE LET shorter == SeqsUpTo(S, n - 1)
       IN shorter \cup {Append(s, x) : s \in {t \in shorter : Len(t) = n - 1}, x \in S}

Messages == SeqsUpTo(MsgAlphabet, MaxMsgLen)

Range(s) == {s[k] : k \in DOMAIN s}

Pow2(n) == 2 ^ n

\* ------------------------------------------------------------- BitCodec
\* bin(byte)[2:] left-padded with zeros to eight bits (most significant first).
ByteBits(byte) == [k \in 1..8 |-> (byte \div Pow2(8 - k)) % 2]

RECURSIVE bytes_to_bits(_, _)
bytes_to_bits(bytes_to_convert, null_end) ==
  IF bytes_to_convert = <<>>
  THEN IF null_end THEN [k \in 1..8 |-> 0] ELSE <<>>
  ELSE ByteBits(Head(bytes_to_convert)) \o bytes_to_bits(Tail(bytes_to_convert), null_end)

\* int(s, 2) of a non-empty bit string.
RECURSIVE BitsToInt(_)
BitsToInt(bits) ==
  IF bits = <<>> THEN 0
  ELSE 2 * BitsToInt(SubSeq(bits, 1, Len(bits) - 1)) + bits[Len(bits)]

\* int.bit_length()
RECURSIVE BitLength(_)
BitLength(n) == IF n = 0 THEN 0 ELSE 1 + BitLength(n \div 2)

\* n.to_bytes(length, "big")
RECURSIVE ToBytes(_, _)
ToBytes(n, length) ==
  IF length = 0 THEN <<>>
  ELSE Append(ToBytes(n \div 256, length - 1), n % 256)

\* n.to_bytes((n.bit_length() + 7) // 8, "big"): no leading zero byte survives.
IntToMinBytes(n) == ToBytes(n, (BitLength(n) + 7) \div 8)

\* int.from_bytes(b, "big")
RECURSIVE BytesToInt(_)
BytesToInt(b) ==
  IF b = <<>> THEN 0
  ELSE 256 * BytesToInt(SubSeq(b, 1, Len(b) - 1)) + b[Len(b)]

\* bytes.decode("utf-8") succeeds: the model's bytes decode iff all are ASCII.
Utf8Ok(b) == \A k \in DOMAIN b : b[k] < 128

\* Python's round(n / d) for n >= 0, d > 0: nearest integer, ties to even.
RoundHalfEven(n, d) ==
  LET q == n \div d
      r == n % d
  IN IF 2 * r < d THEN q
     ELSE IF 2 * r > d THEN q + 1
     ELSE IF q % 2 = 0 THEN q ELSE q + 1

\* ------------------------------------------------------------ RSA model
\* Key objects: the private and the public half of key pair id.
\* (their concrete classes are the backend's, not the abstract RSAPrivateKey and
\* RSAPublicKey that UniSteg imports)
PrivKey(id) == [type |-> "_RSAPrivateKey", id |-> id]
PubKey(id) == [type |-> "_RSAPublicKey", id |-> id]
PrivKeys == {PrivKey(id) : id \in KeyIds}
PubKeys == {PubKey(id) : id \in KeyIds}

\* Bytes of a ciphertext or signature after its leading byte.
Filler == [k \in 1..(KeyBytes - 1) |-> 165]

\* public_key.encrypt(plaintext, OAEP): a KeyBytes-long ciphertext that names the
\* key pair, the plaintext and the padding randomness pad.  The ciphertext of
\* key pair 1, plaintext 0, pad 0 begins with a zero byte.
OaepEncrypt(key, plaintext, pad) ==
  <<pad * (2 * (MaxSeed + 1)) + (key.id - 1) * (MaxSeed + 1) + BytesToInt(plaintext)>> \o Filler

\* private_key.decrypt(ciphertext, OAEP): the plaintext, or a failure (ValueError)
\* when the ciphertext is not KeyBytes long or was not made for this key pair.
OaepDecrypt(key, ciphertext) ==
  IF /\ Len(ciphertext) = KeyBytes
     /\ \E pad \in Pads, seed \in Seeds :
          ciphertext = OaepEncrypt(PubKey(key.id), IntToMinBytes(seed), pad)
  THEN [ok |-> TRUE,
        plaintext |-> IntToMinBytes(ciphertext[1] % (MaxSeed + 1))]
  ELSE [ok |-> FALSE, plaintext |-> <<>>]

\* SHA-256 of the message, as a small number.
RECURSIVE Digest(_)
Digest(message) ==
  IF message = <<>> THEN 0
  ELSE LET last == message[Len(message)]
       IN (2 * Digest(SubSeq(message, 1, Len(message) - 1)) + 1
             + ((last \div 8) % 2)) % 16

\* The salt as an even-weight code word: two signatures of one message under one
\* key differ in at least two bits.
SaltCode(salt) == 2 * salt + ((salt + salt \div 2) % 2)

\* private_key.sign(digest, PSS): a KeyBytes-long signature naming the key pair,
\* the digest and the salt.
PssSign(key, message, salt) ==
  <<SaltCode(salt) + 8 * ((key.id - 1) + 2 * Digest(message))>> \o Filler

\* public_key.verify(signature, digest, PSS): TRUE, or FALSE for InvalidSignature.
PssVerify(key, message, signature) ==
  /\ Len(signature) = KeyBytes
  /\ \E salt \in Salts : signature = PssSign(PrivKey(key.id), message, salt)

\* ------------------------------------------------- pseudo-random generator
\* The image lengths of the model (see Covers) stay below RngMod.
Need(m) == 2 * KeyBits + 8 * m + 8
MaxImageLen == Need(MaxMsgLen) + KeyBits

RECURSIVE Pow2AtLeast(_, _)
Pow2AtLeast(p, n) == IF p >= n THEN p ELSE Pow2AtLeast(2 * p, n)
RngMod == Pow2AtLeast(4, MaxImageLen)

\* random.seed(n): the generator state that seed n gives.
SeedState(n) == (7 * n + 1) % RngMod

\* One step of the generator (a full-period congruential generator stands for the
\* Mersenne Twister: the sequence is a function of the seed alone).
RngStep(s) == (5 * s + 3) % RngMod

\* math.floor(random.random() * len(im)) from generator state s: the index drawn
\* and the state left behind.
RandomIndex(s, n) ==
  LET s2 == RngStep(s) IN [index |-> (s2 * n) \div RngMod, rng |-> s2]

\* ------------------------------------------------------------------ state
VARIABLES
  promotion,  \* NumPy's scalar promotion rule of the build: "value_based" | "weak_scalar"
  alive,      \* the UniSteg objects that have been constructed
  obj,        \* obj[o]: the object's __image, __private_key, __public_key
  origin,     \* origin[o]: where obj[o].image came from (history, for the properties)
  call,       \* call[o]: the locals of the conceal/extract call of object o
  rng,        \* state of the module-level generator of Python's random module
  file,       \* other/stego.png, as written by the last successful conceal
  left,       \* setter calls, conceal calls, extract calls and context switches
              \* still allowed in this behaviour
  last,       \* the object whose call made the latest step
  inputs      \* the messages, seeds, OAEP pads and PSS salts the behaviour draws from

vars == <<promotion, alive, obj, origin, call, rng, file, left, last, inputs>>

\* A call that leaves the generator as the call before it left it.
GeneratorLeftUnseeded(random_seed) == rng

\* random.seed(random_seed) in __get_encrypted_seed and __decrypt_seed: the state
\* of the module-level generator afterwards.
GeneratorAfterSeed(random_seed) == SeedState(random_seed)

\* ---------------------------------------------------------------- FixBit
\* uint8_scalar - k and uint8_scalar + k with a Python int k: NumPy < 2
\* (value-based promotion of two scalars) computes in int64, NumPy >= 2 (NEP 50,
\* weak Python scalars) stays in uint8 and wraps.
ScalarSub(a, k) == IF promotion = "weak_scalar" THEN (a - k) % 256 ELSE a - k
ScalarAdd(a, k) == IF promotion = "weak_scalar" THEN (a + k) % 256 ELSE a + k

FixBit(to_fix, should_be) ==
  IF to_fix % 2 = should_be THEN to_fix
  ELSE IF ScalarSub(to_fix, 1) > 0 THEN ScalarSub(to_fix, 1)
  ELSE ScalarAdd(to_fix, 1)

\* im[index] = value on a uint8 array; indices are 0-based as in the source.
Store(im, index, value) == [im EXCEPT ![index + 1] = value % 256]
At(im, index) == im[index + 1]

\* ---------------------------------------------------------------- images
\* Flattened cover images: one per length, cycling through the channel values
\* 0, 255, 1, 128.
CoverValue(k) == <<0, 255, 1, 128>>[(k % 4) + 1]
Cover(n) == [k \in 1..n |-> CoverValue(k)]

\* Lengths at and just below conceal's capacity limit for each message length,
\* and one below KeyBits.
ImageLens == {Need(m) - d : m \in 0..MaxMsgLen, d \in {0, 1}} \cup {KeyBits \div 2}
Covers == {Rgb(Cover(n)) : n \in ImageLens}

NoMeta == [msg |-> <<>>, signer |-> 0, rcpt |-> 0, seed |-> 0, cipher |-> <<>>,
           signature |-> <<>>, used |-> <<>>, nsecret |-> 0, cover |-> <<>>]
NoFile == [image |-> NoImage, meta |-> NoMeta]
NoOrigin == [kind |-> "none", at |-> 0, meta |-> NoMeta]

FlipLsb(image, index) ==
  Rgb(Store(image.px, index,
            IF At(image.px, index) % 2 = 0 THEN At(image.px, index) + 1
            ELSE At(image.px, index) - 1))

\* Positions of a stego image that hold its signature bits.
SignatureAt(meta) == {meta.used[k] : k \in (meta.nsecret + 1)..Len(meta.used)}

\* The position of the last bit of its terminator.
TerminatorEndAt(meta) == meta.used[meta.nsecret]

\* What set_image can be handed: a cover, the stego file, or the stego file with
\* one least-significant bit flipped, at a signature position or at the end of
\* the terminator.
ImageInputs ==
  {[image |-> c, origin |-> [kind |-> "cover", at |-> 0, meta |-> NoMeta]] : c \in Covers}
  \cup (IF file.image = NoImage THEN {}
        ELSE {[image |-> file.image, origin |-> [kind |-> "stego", at |-> 0, meta |-> file.meta]]}
             \cup {[image |-> FlipLsb(file.image, p),
                    origin |-> [kind |-> "flipped", at |-> p, meta |-> file.meta]]
                   : p \in SignatureAt(file.meta) \cup {TerminatorEndAt(file.meta)}})

\* ----------------------------------------------------------- construction
\* set_keys' test, `not type(private) is not RSAPrivateKey or not type(public) is
\* not RSAPublicKey`, i.e. type(private) is RSAPrivateKey or type(public) is
\* RSAPublicKey.
TypeIs(x, cls) == x.type = cls
SetKeysRaises(private, public) ==
  TypeIs(private, "RSAPrivateKey") \/ TypeIs(public, "RSAPublicKey")

PrivArgs == PrivKeys \cup {None}
PubArgs == PubKeys \cup {None}

\* UniSteg.__init__(image, private_key, public_key): the attributes it leaves.
\* __public_key is not assigned when private_key is None, nor __private_key when
\* only public_key is None.
Constructed(image, private_key, public_key) ==
  [image |-> image,
   privateKey |-> IF private_key = None THEN None
                  ELSE IF public_key = None THEN Unset ELSE private_key,
   publicKey |-> IF private_key = None THEN Unset
                 ELSE IF public_key = None THEN None ELSE public_key]

\* The attributes of an object are an image and two keys.
Configured1(object) ==
  /\ object.image # NoImage
  /\ object.privateKey \in PrivKeys
  /\ object.publicKey \in PubKeys

IdleCall ==
  [pc |-> "idle", op |-> "none", outcome |-> "none", message |-> <<>>, seed |-> 0,
   im |-> <<>>, used |-> <<>>, secret |-> <<>>, signature |-> <<>>, i |-> 0,
   seedStr |-> <<>>, messageStr |-> <<>>, messageBin |-> <<>>, numZeros |-> 0,
   returned |-> Nothing, shown |-> Nothing,
   \* history, for the properties: the object and the generator as the call began
   source |-> NoOrigin, image |-> NoImage, privateKey |-> None, publicKey |-> None,
   rng0 |-> 0]

\* The locals of a call of operation op that object o begins now.
Began(o, op) ==
  [IdleCall EXCEPT !.op = op, !.source = origin[o], !.image = obj[o].image,
                   !.privateKey = obj[o].privateKey, !.publicKey = obj[o].publicKey,
                   !.rng0 = rng]

InitObjects(objects, images) ==
  /\ alive = objects
  /\ obj \in [Objs -> {Constructed(a[1], a[2], a[3]) :
                         a \in {b \in images \X PrivArgs \X PubArgs :
                                  b[2] = None \/ b[3] = None \/ ~SetKeysRaises(b[2], b[3])}}]
  /\ \A o \in Objs \ objects : obj[o] = Constructed(NoImage, None, None)
  /\ origin = [o \in Objs |->
                 IF obj[o].image = NoImage THEN NoOrigin
                 ELSE [kind |-> "cover", at |-> 0, meta |-> NoMeta]]
  /\ call = [o \in Objs |-> IdleCall]
  /\ rng = 0
  /\ file = NoFile
  /\ last = 0
  /\ promotion \in {"value_based", "weak_scalar"}

AllInputs == [messages |-> Messages, seeds |-> Seeds, pads |-> Pads, salts |-> Salts]

\* One object, used from one thread.
Init ==
  /\ InitObjects({1}, Covers \cup {NoImage})
  /\ left = [sets |-> MaxSets, conceals |-> 1, extracts |-> 1, switches |-> 0]
  /\ inputs = AllInputs

\* ------------------------------------------------------------- scheduling
Running(o) == call[o].pc # "idle"

\* A step of object o's call costs a context switch when another call is in
\* flight and the latest step was not o's.  With no switches left, calls run one
\* after the other, as from a single thread.
SwitchCost(o) ==
  IF last # o /\ \E p \in Objs \ {o} : Running(p) THEN 1 ELSE 0

Spend(o, sets, conceals, extracts) ==
  /\ left.switches >= SwitchCost(o)
  /\ left.sets >= sets
  /\ left.conceals >= conceals
  /\ left.extracts >= extracts
  /\ left' = [sets |-> left.sets - sets, conceals |-> left.conceals - conceals,
              extracts |-> left.extracts - extracts,
              switches |-> left.switches - SwitchCost(o)]
  /\ last' = o
  /\ UNCHANGED inputs

Step(o) == Spend(o, 0, 0, 0)

SetCall(o, c) == call' = [call EXCEPT ![o] = c]

Raise(c, error) == [c EXCEPT !.pc = "idle", !.outcome = error]

\* ---------------------------------------------------------------- setters
\* set_image(image): image.convert('RGB') succeeds for every image of the model.
SetImage(o, input) ==
  /\ o \in alive
  /\ ~Running(o)
  /\ Spend(o, 1, 0, 0)
  /\ obj' = [obj EXCEPT ![o].image = input.image]
  /\ origin' = [origin EXCEPT ![o] = input.origin]
  /\ UNCHANGED <<promotion, alive, call, rng, file>>

SetKeys(o, private, public) ==
  /\ o \in alive
  /\ ~Running(o)
  /\ Spend(o, 1, 0, 0)
  /\ IF SetKeysRaises(private, public)
     THEN UNCHANGED obj
     ELSE obj' = [obj EXCEPT ![o].privateKey = private, ![o].publicKey = public]
  /\ UNCHANGED <<promotion, alive, origin, call, rng, file>>

\* ------------------------------------------------------------ the scheduler
\* The draw-until-unused loop of __place_random_bit / __extract_random_bit from
\* generator state s: the first drawn index not in used_indexes, and the state
\* left behind.  Called only while some index is unused.
RECURSIVE DrawUnused(_, _, _)
DrawUnused(s, used_indexes, n) ==
  LET d == RandomIndex(s, n)
  IN IF d.index \in Range(used_indexes) THEN DrawUnused(d.rng, used_indexes, n) ELSE d

AllUsed(used_indexes, n) == \A k \in 0..(n - 1) : k \in Range(used_indexes)

\* A placement that takes the first index drawn, used or not.
PlaceRandomBitAnywhere(c, bit_array) ==
  IF AllUsed(c.used, Len(c.im))
  THEN [c |-> [c EXCEPT !.pc = "spin"], rng |-> RngStep(rng)]
  ELSE LET d == RandomIndex(rng, Len(c.im))
       IN [c |-> [c EXCEPT !.used = Append(@, d.index),
                           !.im = Store(@, d.index, FixBit(At(@, d.index), bit_array[c.i + 1])),
                           !.i = @ + 1],
           rng |-> d.rng]

\* __place_random_bit(im, bit_array, used_indexes, i) on the locals c: the locals
\* and the generator afterwards.  With every index used the loop never ends.
PlaceRandomBit(c, bit_array) ==
  IF AllUsed(c.used, Len(c.im))
  THEN [c |-> [c EXCEPT !.pc = "spin"], rng |-> RngStep(rng)]
  ELSE LET d == DrawUnused(rng, c.used, Len(c.im))
       IN [c |-> [c EXCEPT !.used = Append(@, d.index),
                           !.im = Store(@, d.index, FixBit(At(@, d.index), bit_array[c.i + 1])),
                           !.i = @ + 1],
           rng |-> d.rng]

\* ---------------------------------------------------------------- conceal
\* round(len(im) / 2048) * i
CipherIndex(n, i) == RoundHalfEven(n, KeyBits) * i

\* conceal, lines 86-100: the configuration checks, __get_encrypted_seed (which
\* seeds the module-level generator), the bit array and the capacity check.
ConcealBegin(o, message_bytes, random_seed, pad) ==
  /\ o \in alive
  /\ ~Running(o)
  /\ Spend(o, 0, 1, 0)
  /\ LET c == [Began(o, "conceal") EXCEPT !.message = message_bytes]
         secret_binary ==
           bytes_to_bits(OaepEncrypt(obj[o].publicKey, IntToMinBytes(random_seed), pad)
                           \o message_bytes, TRUE)
     IN IF obj[o].image = NoImage
        THEN SetCall(o, Raise(c, "TypeError: Image not set.")) /\ UNCHANGED rng
        ELSE IF obj[o].publicKey = Unset
        THEN SetCall(o, Raise(c, "AttributeError")) /\ UNCHANGED rng
        ELSE IF obj[o].publicKey = None
        THEN SetCall(o, Raise(c, "TypeError: One or more keys not set.")) /\ UNCHANGED rng
        ELSE IF obj[o].privateKey = Unset
        THEN SetCall(o, Raise(c, "AttributeError")) /\ UNCHANGED rng
        ELSE IF obj[o].privateKey = None
        THEN SetCall(o, Raise(c, "TypeError: One or more keys not set.")) /\ UNCHANGED rng
        ELSE /\ rng' = GeneratorAfterSeed(random_seed)
             /\ IF Len(obj[o].image.px) < Len(secret_binary) + KeyBits
                THEN SetCall(o, Raise([c EXCEPT !.seed = random_seed,
                                                !.im = obj[o].image.px,
                                                !.secret = secret_binary],
                                      "ValueError: Image has too few pixels to fit message."))
                ELSE SetCall(o, [c EXCEPT !.pc = "conceal_secret", !.seed = random_seed,
                                          !.im = obj[o].image.px,
                                          !.secret = secret_binary])
  /\ UNCHANGED <<promotion, alive, obj, origin, file>>

\* conceal, lines 103-107: the turns i < 2048 of the loop over secret_binary, from
\* turn c.i on.  They touch the call's locals only; an index past the buffer
\* raises IndexError and ends the call.
RECURSIVE EmbedSeedChannel(_)
EmbedSeedChannel(c) ==
  LET cipher_index == CipherIndex(Len(c.im), c.i)
  IN IF c.i >= KeyBits \/ c.i >= Len(c.secret) THEN c
     ELSE IF cipher_index >= Len(c.im) THEN Raise(c, "IndexError")
     ELSE EmbedSeedChannel([c EXCEPT
            !.im = Store(@, cipher_index, FixBit(At(@, cipher_index), c.secret[c.i + 1])),
            !.used = Append(@, cipher_index),
            !.i = @ + 1])

ConcealSeedChannel(o) ==
  /\ call[o].pc = "conceal_secret"
  /\ call[o].i < KeyBits
  /\ Step(o)
  /\ SetCall(o, EmbedSeedChannel(call[o]))
  /\ UNCHANGED <<promotion, alive, obj, origin, rng, file>>

\* conceal, lines 108-109: one turn i >= 2048 of the loop over secret_binary.
ConcealSecretBit(o) ==
  /\ call[o].pc = "conceal_secret"
  /\ call[o].i >= KeyBits
  /\ call[o].i < Len(call[o].secret)
  /\ Step(o)
  /\ LET placed == PlaceRandomBit(call[o], call[o].secret)
     IN SetCall(o, placed.c) /\ rng' = placed.rng
  /\ UNCHANGED <<promotion, alive, obj, origin, file>>

\* conceal, lines 111-112: the signature of the message and its bits.
ConcealSign(o, salt) ==
  /\ call[o].pc = "conceal_secret"
  /\ call[o].i = Len(call[o].secret)
  /\ Step(o)
  /\ SetCall(o, [call[o] EXCEPT
       !.pc = "conceal_signature",
       !.signature = bytes_to_bits(PssSign(obj[o].privateKey, call[o].message, salt), FALSE),
       !.i = 0])
  /\ UNCHANGED <<promotion, alive, obj, origin, rng, file>>

\* conceal, lines 115-116: one turn of the loop over signature_binary.
ConcealSignatureBit(o) ==
  /\ call[o].pc = "conceal_signature"
  /\ call[o].i < Len(call[o].signature)
  /\ Step(o)
  /\ LET placed == PlaceRandomBit(call[o], call[o].signature)
     IN SetCall(o, placed.c) /\ rng' = placed.rng
  /\ UNCHANGED <<promotion, alive, obj, origin, file>>

\* A conceal whose buffer is the image's own storage: saving also leaves the
\* embedded values in the object's image.
ConcealSaveInPlace(o) ==
  /\ call[o].pc = "conceal_signature"
  /\ call[o].i = Len(call[o].signature)
  /\ Step(o)
  /\ LET c == call[o]
     IN /\ file' = [image |-> Rgb(c.im),
                    meta |-> [msg |-> c.message, signer |-> obj[o].privateKey.id,
                              rcpt |-> obj[o].publicKey.id, seed |-> c.seed,
                              cipher |-> SubSeq(c.secret, 1, KeyBits),
                              signature |-> c.signature, used |-> c.used,
                              nsecret |-> Len(c.secret), cover |-> obj[o].image.px]]
        /\ obj' = [obj EXCEPT ![o].image = Rgb(c.im)]
        /\ SetCall(o, [c EXCEPT !.pc = "idle", !.outcome = "ok"])
  /\ UNCHANGED <<promotion, alive, origin, rng>>

\* conceal, lines 118-119: the buffer is reshaped and saved as other/stego.png;
\* conceal returns None.
ConcealSave(o) ==
  /\ call[o].pc = "conceal_signature"
  /\ call[o].i = Len(call[o].signature)
  /\ Step(o)
  /\ LET c == call[o]
     IN /\ file' = [image |-> Rgb(c.im),
                    meta |-> [msg |-> c.message, signer |-> obj[o].privateKey.id,
                              rcpt |-> obj[o].publicKey.id, seed |-> c.seed,
                              cipher |-> SubSeq(c.secret, 1, KeyBits),
                              signature |-> c.signature, used |-> c.used,
                              nsecret |-> Len(c.secret), cover |-> obj[o].image.px]]
        /\ SetCall(o, [c EXCEPT !.pc = "idle", !.outcome = "ok"])
  /\ UNCHANGED <<promotion, alive, obj, origin, rng>>

\* ---------------------------------------------------------------- extract
\* __extract_random_bit(im, bits_string, used_indexes, num_zeros) from generator
\* state s: the returned pair (bits_string, num_zeros), the grown used_indexes and
\* the generator afterwards; num_zeros = -1 is the default argument.  With every
\* index used the loop never ends (spin).
ExtractRandomBit(s, im, bits_string, used_indexes, num_zeros) ==
  IF AllUsed(used_indexes, Len(im))
  THEN [spin |-> TRUE, bits |-> bits_string, zeros |-> num_zeros,
        used |-> used_indexes, rng |-> RngStep(s)]
  ELSE LET d == DrawUnused(s, used_indexes, Len(im))
           bit == At(im, d.index) % 2
       IN [spin |-> FALSE,
           bits |-> Append(bits_string, bit),
           zeros |-> IF num_zeros >= 0
                     THEN (IF bit = 0 THEN num_zeros + 1 ELSE 0)
                     ELSE num_zeros,
           used |-> Append(used_indexes, d.index),
           rng |-> d.rng]

\* extract, lines 171-172: `count` further calls of __extract_random_bit, each
\* given the string the one before returned.
RECURSIVE ReadSignature(_, _, _, _, _)
ReadSignature(s, im, signature_binary, used_indexes, count) ==
  IF count = 0
  THEN [spin |-> FALSE, bits |-> signature_binary, zeros |-> -1,
        used |-> used_indexes, rng |-> s]
  ELSE LET r == ExtractRandomBit(s, im, signature_binary, used_indexes, -1)
       IN IF r.spin THEN r
          ELSE ReadSignature(r.rng, im, r.bits, r.used, count - 1)

\* extract, lines 130-141.
ExtractBegin(o) ==
  /\ o \in alive
  /\ ~Running(o)
  /\ Spend(o, 0, 0, 1)
  /\ LET c == Began(o, "extract")
     IN IF obj[o].image = NoImage
        THEN SetCall(o, Raise(c, "TypeError: Image not set."))
        ELSE IF obj[o].publicKey = Unset
        THEN SetCall(o, Raise(c, "AttributeError"))
        ELSE IF obj[o].publicKey = None
        THEN SetCall(o, Raise(c, "TypeError: One or more keys not set."))
        ELSE IF obj[o].privateKey = Unset
        THEN SetCall(o, Raise(c, "AttributeError"))
        ELSE IF obj[o].privateKey = None
        THEN SetCall(o, Raise(c, "TypeError: One or more keys not set."))
        ELSE SetCall(o, [c EXCEPT !.pc = "extract_seed", !.im = obj[o].image.px])
  /\ UNCHANGED <<promotion, alive, obj, origin, rng, file>>

\* extract, lines 144-148: the loop over the seed channel, from turn c.i on.  It
\* touches the call's locals only; an index past the buffer raises IndexError.
RECURSIVE ReadSeedChannel(_)
ReadSeedChannel(c) ==
  LET cipher_index == CipherIndex(Len(c.im), c.i)
  IN IF c.i >= KeyBits THEN c
     ELSE IF cipher_index >= Len(c.im) THEN Raise(c, "IndexError")
     ELSE ReadSeedChannel([c EXCEPT
            !.seedStr = Append(@, At(c.im, cipher_index) % 2),
            !.used = Append(@, cipher_index),
            !.i = @ + 1])

ExtractSeedChannel(o) ==
  /\ call[o].pc = "extract_seed"
  /\ call[o].i < KeyBits
  /\ Step(o)
  /\ SetCall(o, ReadSeedChannel(call[o]))
  /\ UNCHANGED <<promotion, alive, obj, origin, rng, file>>

\* __decrypt_seed(binary_encrypted_seed): the seed, or a failure.
DecryptSeed(key, binary_encrypted_seed) ==
  LET d == OaepDecrypt(key, IntToMinBytes(BitsToInt(binary_encrypted_seed)))
  IN [ok |-> d.ok, seed |-> BytesToInt(d.plaintext)]

\* An extract that goes on to the message loop, with seed 0, when __decrypt_seed
\* fails.
ExtractDecryptLenient(o) ==
  /\ call[o].pc = "extract_seed"
  /\ call[o].i = KeyBits
  /\ Step(o)
  /\ LET c == call[o]
         d == DecryptSeed(obj[o].privateKey, c.seedStr)
     IN /\ rng' = GeneratorAfterSeed(d.seed)
        /\ SetCall(o, [c EXCEPT !.pc = "extract_message", !.seed = d.seed])
  /\ UNCHANGED <<promotion, alive, obj, origin, file>>

\* extract, lines 150-153: __decrypt_seed seeds the module-level generator, or
\* any failure in it becomes the incompatible-key error.
ExtractDecrypt(o) ==
  /\ call[o].pc = "extract_seed"
  /\ call[o].i = KeyBits
  /\ Step(o)
  /\ LET c == call[o]
         d == DecryptSeed(obj[o].privateKey, c.seedStr)
     IN IF d.ok
        THEN /\ rng' = GeneratorAfterSeed(d.seed)
             /\ SetCall(o, [c EXCEPT !.pc = "extract_message", !.seed = d.seed])
        ELSE /\ UNCHANGED rng
             /\ SetCall(o, Raise(c, "ValueError: Private key is not compatible with this image"))
  /\ UNCHANGED <<promotion, alive, obj, origin, file>>

\* extract, line 156: the condition of the message loop.
MessageLoopGoesOn(c) == c.numZeros < 8 \/ Len(c.messageStr) % 8 # 0

\* extract, lines 157-162: one turn of the message loop.  The returned string is
\* bound to message_binary; message_binary_str is what the next turn passes.
ExtractMessageBit(o) ==
  /\ call[o].pc = "extract_message"
  /\ MessageLoopGoesOn(call[o])
  /\ Step(o)
  /\ LET c == call[o]
         r == ExtractRandomBit(rng, c.im, c.messageStr, c.used, c.numZeros)
     IN /\ rng' = r.rng
        /\ IF r.spin
           THEN SetCall(o, [c EXCEPT !.pc = "spin"])
           ELSE SetCall(o, [c EXCEPT !.messageBin = r.bits,
                                     !.numZeros = r.zeros,
                                     !.used = r.used])
  /\ UNCHANGED <<promotion, alive, obj, origin, file>>

\* message_binary_str[:-8]
StripTerminator(bits_string) == SubSeq(bits_string, 1, Len(bits_string) - 8)

\* extract, lines 164-182: the message is parsed and decoded, the signature is
\* read with KeyBits further draws and verified.  int("", 2) raises ValueError.
ExtractFinish(o) ==
  /\ call[o].pc = "extract_message"
  /\ ~MessageLoopGoesOn(call[o])
  /\ Step(o)
  /\ LET c == call[o]
         stripped == StripTerminator(c.messageStr)
         message_bytes == IntToMinBytes(BitsToInt(stripped))
         r == ReadSignature(rng, c.im, <<>>, c.used, KeyBits)
         signature_bytes == IntToMinBytes(BitsToInt(r.bits))
     IN IF stripped = <<>>
        THEN SetCall(o, Raise(c, "ValueError: invalid literal for int()")) /\ UNCHANGED rng
        ELSE IF ~Utf8Ok(message_bytes)
        THEN SetCall(o, Raise(c, "UnicodeDecodeError")) /\ UNCHANGED rng
        ELSE /\ rng' = r.rng
             /\ IF r.spin
                THEN SetCall(o, [c EXCEPT !.pc = "spin", !.used = r.used])
                ELSE IF PssVerify(obj[o].publicKey, message_bytes, signature_bytes)
                THEN SetCall(o, [c EXCEPT !.pc = "idle", !.outcome = "ok",
                                          !.used = r.used, !.signature = r.bits,
                                          !.returned = Some(message_bytes)])
                ELSE SetCall(o, [c EXCEPT
                       !.pc = "idle",
                       !.outcome = "ValueError: The message was not sent from the intended sender",
                       !.used = r.used, !.signature = r.bits,
                       !.shown = Some(message_bytes)])
  /\ UNCHANGED <<promotion, alive, obj, origin, file>>

\* A draw loop that finds every index used draws again, for ever.
Spin(o) ==
  /\ call[o].pc = "spin"
  /\ Step(o)
  /\ rng' = RngStep(rng)
  /\ UNCHANGED <<promotion, alive, obj, origin, call, file>>

\* ------------------------------------------------------- specifications
Next ==
  \/ \E o \in Objs, input \in ImageInputs : SetImage(o, input)
  \/ \E o \in Objs, private \in PrivArgs, public \in PubArgs : SetKeys(o, private, public)
  \/ \E o \in Objs, message_bytes \in inputs.messages, random_seed \in inputs.seeds,
        pad \in inputs.pads :
       ConcealBegin(o, message_bytes, random_seed, pad)
  \/ \E o \in Objs : ConcealSeedChannel(o)
  \/ \E o \in Objs : ConcealSecretBit(o)
  \/ \E o \in Objs, salt \in inputs.salts : ConcealSign(o, salt)
  \/ \E o \in Objs : ConcealSignatureBit(o)
  \/ \E o \in Objs : ConcealSave(o)
  \/ \E o \in Objs : ExtractBegin(o)
  \/ \E o \in Objs : ExtractSeedChannel(o)
  \/ \E o \in Objs : ExtractDecrypt(o)
  \/ \E o \in Objs : ExtractMessageBit(o)
  \/ \E o \in Objs : ExtractFinish(o)
  \/ \E o \in Objs : Spin(o)

Spec == Init /\ [][Next]_vars

\* Two objects built alike (an image of 4 * KeyBits values, whose seed-channel
\* stride is exactly 4 and which fits a one-byte message, the sender's private
\* key and the receiver's public key), each making one conceal call, one call
\* after the other as from a single thread.
InitPair ==
  /\ InitObjects({1, 2}, {Rgb(Cover(4 * KeyBits))})
  /\ obj[1] = obj[2]
  /\ obj[1].privateKey = PrivKey(1)
  /\ obj[1].publicKey = PubKey(2)
  /\ left = [sets |-> 0, conceals |-> 2, extracts |-> 0, switches |-> 0]
  /\ inputs = [AllInputs EXCEPT !.messages = SeqsUpTo({104}, 1)]

NextConceal ==
  \/ \E o \in Objs, message_bytes \in inputs.messages, random_seed \in inputs.seeds,
        pad \in inputs.pads :
       ConcealBegin(o, message_bytes, random_seed, pad)
  \/ \E o \in Objs : ConcealSeedChannel(o)
  \/ \E o \in Objs : ConcealSecretBit(o)
  \/ \E o \in Objs, salt \in inputs.salts : ConcealSign(o, salt)
  \/ \E o \in Objs : ConcealSignatureBit(o)
  \/ \E o \in Objs : ConcealSave(o)

SpecPair == InitPair /\ [][NextConceal]_vars

\* The two calls from two threads: the second may begin while the first is in
\* flight.  Each conceals the empty message in an image that just fits it.
InitThreads ==
  /\ InitObjects({1, 2}, {Rgb(Cover(Need(0)))})
  /\ obj[1] = obj[2]
  /\ obj[1].privateKey = PrivKey(1)
  /\ obj[1].publicKey = PubKey(2)
  /\ left = [sets |-> 0, conceals |-> 2, extracts |-> 0, switches |-> MaxSwitches]
  /\ inputs = [AllInputs EXCEPT !.messages = {<<>>}, !.pads = {0}, !.salts = {0}]

SpecThreads == InitThreads /\ [][NextConceal]_vars

\* An image that no conceal produced: 3 * KeyBits values, the seed channel
\* (stride 3) carrying the bits of a ciphertext and every other value `fill`.
ForgedImage(ciphertext, fill) ==
  LET bits == bytes_to_bits(ciphertext, FALSE)
  IN Rgb([k \in 1..(3 * KeyBits) |->
            IF (k - 1) % 3 = 0 THEN 254 + bits[((k - 1) \div 3) + 1] ELSE fill])

\* Forged images whose seed channel holds a seed encrypted for one of the key
\* pairs; outside it all parities are 1 (fill 255: no run of zero bits
\* anywhere) or all are 0 (fill 254).
ForgedImages ==
  {ForgedImage(OaepEncrypt(PubKey(id), IntToMinBytes(seed), pad), fill) :
     id \in KeyIds, seed \in Seeds, pad \in Pads, fill \in {254, 255}}

\* One object holding a forged image, making one extract call.
InitExtract ==
  /\ InitObjects({1}, ForgedImages \cup {NoImage})
  /\ left = [sets |-> 0, conceals |-> 0, extracts |-> 1, switches |-> 0]
  /\ inputs = AllInputs

NextExtract ==
  \/ \E o \in Objs : ExtractBegin(o)
  \/ \E o \in Objs : ExtractSeedChannel(o)
  \/ \E o \in Objs : ExtractDecrypt(o)
  \/ \E o \in Objs : ExtractMessageBit(o)
  \/ \E o \in Objs : ExtractFinish(o)
  \/ \E o \in Objs : Spin(o)

\* The interpreter keeps executing a call that has begun.  A call at a step of
\* extract (pc "extract_seed" or "extract_message") can always take that step,
\* and the step changes its locals: weak fairness of the call's steps, with
\* ENABLED written out as the condition on pc.
ExtractStepFair(o) ==
  \/ []<>(call[o].pc \in {"idle", "spin"})
  \/ []<><<call'[o] # call[o]>>_vars

\* A call in a draw loop keeps drawing.
SpecExtract ==
  /\ InitExtract
  /\ [][NextExtract]_vars
  /\ \A o \in Objs : WF_vars(Spin(o))
  /\ \A o \in Objs : ExtractStepFair(o)

\* ---------------------------------------------------------- the bit codec
\* Bytes the codec is tried on: NUL, 1, 'h', 0xFF.
CodecBytes == {0, 1, 104, 255}
CodecInputs == SeqsUpTo(CodecBytes, MaxCodecLen)

\* extract, lines 164-165: the bytes of a message bit string whose terminator
\* is still attached.  int("", 2) raises ValueError.
BitsToBytes(message_binary_str) ==
  LET stripped == StripTerminator(message_binary_str)
  IN IF stripped = <<>> THEN [ok |-> FALSE, bytes |-> <<>>]
     ELSE [ok |-> TRUE, bytes |-> IntToMinBytes(BitsToInt(stripped))]

\* No object in use; one byte sequence to convert.
InitCodec ==
  /\ InitObjects({}, {NoImage})
  /\ left = [sets |-> 0, conceals |-> 0, extracts |-> 0, switches |-> 0]
  /\ \E b \in CodecInputs : inputs = [AllInputs EXCEPT !.messages = {b}]

\* __bytes_to_bits(message_bytes, True), as conceal calls it at line 92.
EncodeBits(o) ==
  /\ call[o].op = "none"
  /\ \E message_bytes \in inputs.messages :
       SetCall(o, [IdleCall EXCEPT !.op = "encode", !.message = message_bytes,
                                   !.secret = bytes_to_bits(message_bytes, TRUE)])
  /\ UNCHANGED <<promotion, alive, obj, origin, rng, file, left, last, inputs>>

\* Lines 164-165 of extract on those bits.
DecodeBits(o) ==
  /\ call[o].op = "encode"
  /\ LET r == BitsToBytes(call[o].secret)
     IN SetCall(o, [call[o] EXCEPT
          !.op = "decode",
          !.outcome = IF r.ok THEN "ok" ELSE "ValueError: invalid literal for int()",
          !.returned = IF r.ok THEN Some(r.bytes) ELSE Nothing])
  /\ UNCHANGED <<promotion, alive, obj, origin, rng, file, left, last, inputs>>

NextCodec ==
  \/ \E o \in Objs : EncodeBits(o)
  \/ \E o \in Objs : DecodeBits(o)

SpecCodec == InitCodec /\ [][NextCodec]_vars

\* ------------------------------------------------------------- properties
Ended(o, op) == o \in alive /\ call[o].op = op /\ call[o].pc = "idle"

NotConfiguredErrors ==
  {"TypeError: Image not set.", "TypeError: One or more keys not set."}
CapacityError == "ValueError: Image has too few pixels to fit message."
IncompatibleKeyError == "ValueError: Private key is not compatible with this image"
AuthenticationError == "ValueError: The message was not sent from the intended sender"

IsKey(k) == k # None /\ k # Unset

\* The call of o works on a stego image (as saved, or with one flipped bit) ...
OnStego(o) == call[o].source.kind \in {"stego", "flipped"}
\* ... with the private key of the pair whose public key encrypted the seed,
DecryptKeyMatches(o) ==
  IsKey(call[o].privateKey) /\ call[o].privateKey.id = call[o].source.meta.rcpt
\* ... and the public key of the pair whose private key signed the message.
VerifyKeyMatches(o) ==
  IsKey(call[o].publicKey) /\ call[o].publicKey.id = call[o].source.meta.signer

\* C1 (round trip): an extract that has ended on the unmodified stego image of a
\* conceal, with the matching keys, returned exactly the concealed message.
C1_RoundTrip ==
  \A o \in Objs :
    (/\ Ended(o, "extract")
     /\ call[o].source.kind = "stego"
     /\ DecryptKeyMatches(o)
     /\ VerifyKeyMatches(o))
    => /\ call[o].outcome = "ok"
       /\ call[o].returned = Some(call[o].source.meta.msg)

\* C2 (capacity boundary): a configured conceal on an image of exactly
\* len(secret bits) + KeyBits channel values ends in success, and on an image one
\* shorter it ends in the capacity error with nothing written.
Configured(o) == call[o].image # NoImage /\ IsKey(call[o].privateKey) /\ IsKey(call[o].publicKey)

C2_CapacityBoundary ==
  \A o \in Objs :
    (Ended(o, "conceal") /\ Configured(o))
    => /\ Len(call[o].image.px) = Len(call[o].secret) + KeyBits
            => call[o].outcome = "ok"
       /\ Len(call[o].image.px) = Len(call[o].secret) + KeyBits - 1
            => /\ call[o].outcome = CapacityError
               /\ call[o].used = <<>>
               /\ call[o].im = call[o].image.px

\* C3 (tamper sensitivity): an extract that has ended on a stego image with one
\* signature position's least-significant bit flipped, with the matching keys,
\* ended in the authentication error and returned nothing.
C3_TamperDetected ==
  \A o \in Objs :
    (/\ Ended(o, "extract")
     /\ call[o].source.kind = "flipped"
     /\ call[o].source.at \in SignatureAt(call[o].source.meta)
     /\ DecryptKeyMatches(o)
     /\ VerifyKeyMatches(o))
    => /\ call[o].outcome = AuthenticationError
       /\ call[o].returned = Nothing

\* The seed-channel positions of a buffer of n values.
SeedChannelAt(n) == {CipherIndex(n, i) : i \in 0..(KeyBits - 1)}

\* The call of o is an extract on a stego image with a private key of another
\* pair than the one whose public key encrypted the seed.
WrongKeyExtract(o) ==
  /\ o \in alive
  /\ call[o].op = "extract"
  /\ OnStego(o)
  /\ Configured(o)
  /\ call[o].privateKey.id # call[o].source.meta.rcpt

\* C4 (wrong key rejection): an extract with a non-matching private key never
\* leaves the seed phase except by the incompatible-key error: it does not seed
\* the generator, reads seed-channel positions only, and neither returns nor
\* shows a message.
C4_WrongKeyRejected ==
  \A o \in Objs :
    WrongKeyExtract(o)
    => /\ call[o].pc \in {"extract_seed", "idle"}
       /\ call[o].pc = "idle" => call[o].outcome = IncompatibleKeyError
       /\ last = o => rng = call[o].rng0
       /\ Range(call[o].used) \subseteq SeedChannelAt(Len(call[o].im))
       /\ call[o].messageBin = <<>>
       /\ call[o].returned = Nothing
       /\ call[o].shown = Nothing

C4_Witness ==
  \E o \in Objs :
    /\ WrongKeyExtract(o)
    /\ call[o].pc = "idle"
    /\ call[o].outcome = IncompatibleKeyError
    /\ Len(call[o].used) = KeyBits

\* C5 (not configured): a conceal or extract that has ended on an object whose
\* image, private key or public key was not set ended in one of the two
\* not-configured TypeErrors.
C5_NotConfigured ==
  \A o \in Objs :
    ((Ended(o, "conceal") \/ Ended(o, "extract")) /\ ~Configured(o))
    => call[o].outcome \in NotConfiguredErrors

\* C6 (used-index invariant): no call records a buffer index twice.
NoDuplicates(seq) == \A j, k \in DOMAIN seq : j # k => seq[j] # seq[k]

C6_NoIndexReused == \A o \in Objs : NoDuplicates(call[o].used)

\* Two conceal calls that have ended in success.
BothConcealed ==
  /\ Ended(1, "conceal") /\ call[1].outcome = "ok"
  /\ Ended(2, "conceal") /\ call[2].outcome = "ok"

SameInputs ==
  /\ call[1].seed = call[2].seed
  /\ call[1].image = call[2].image
  /\ call[1].message = call[2].message
  /\ call[1].signature = call[2].signature

SameCipher == SubSeq(call[1].secret, 1, KeyBits) = SubSeq(call[2].secret, 1, KeyBits)

\* C7 as stated (determinism): two conceal calls with the same seed, image,
\* message and signature bits wrote the same indices in the same order and left
\* the same buffer.
C7_Original ==
  (BothConcealed /\ SameInputs)
  => /\ call[1].used = call[2].used
     /\ call[1].im = call[2].im

\* C7 as amended: two conceal calls with the same seed, image, message and
\* signature bits wrote the same indices in the same order; with the same
\* encrypted-seed bits as well, they left the same buffer.
C7_Determinism ==
  (BothConcealed /\ SameInputs)
  => /\ call[1].used = call[2].used
     /\ SameCipher => call[1].im = call[2].im

C7_Witness ==
  /\ BothConcealed
  /\ SameInputs
  /\ SameCipher
  /\ Len(call[1].used) = Len(call[1].secret) + KeyBits
  /\ call[1].used = call[2].used
  /\ call[1].im = call[2].im
  /\ call[1].im # call[1].image.px

\* The indices a call with this seed records when it runs alone on a buffer of
\* n values: the seed channel, then draws from the generator as the seed left it.
RECURSIVE SoloDraws(_, _, _, _)
SoloDraws(s, used_indexes, n, count) ==
  IF count = 0 THEN used_indexes
  ELSE LET d == DrawUnused(s, used_indexes, n)
       IN SoloDraws(d.rng, Append(used_indexes, d.index), n, count - 1)

SoloUsed(seed, n, total) ==
  IF total <= KeyBits THEN [k \in 1..total |-> CipherIndex(n, k - 1)]
  ELSE SoloDraws(SeedState(seed), [k \in 1..KeyBits |-> CipherIndex(n, k - 1)], n,
                 total - KeyBits)

\* C8 (no shared mutable state): at every step of a conceal call, also when
\* another call runs in between its steps, the indices it has recorded are those
\* it records when it runs alone.
C8_NoSharedState ==
  \A o \in Objs :
    (o \in alive /\ call[o].op = "conceal" /\ call[o].pc # "spin")
    => call[o].used = SoloUsed(call[o].seed, Len(call[o].im), Len(call[o].used))

\* The bit that a conceal call wrote at the j-th index it recorded.
WrittenBit(c, j) ==
  IF j <= Len(c.secret) THEN c.secret[j] ELSE c.signature[j - Len(c.secret)]

\* C9 (bit fix): at every step of a conceal call every buffer value is in
\* 0..255 and within one of the cover's value at that position, and every
\* position it has fixed holds the desired bit in its least-significant bit.
C9_FixBitInRange ==
  \A o \in Objs :
    (o \in alive /\ call[o].op = "conceal" /\ call[o].im # <<>>)
    => /\ \A k \in DOMAIN call[o].im :
            /\ call[o].im[k] \in 0..255
            /\ call[o].im[k] - call[o].image.px[k] \in {-1, 0, 1}
       /\ \A j \in DOMAIN call[o].used :
            At(call[o].im, call[o].used[j]) % 2 = WrittenBit(call[o], j)

\* No extract call ever gets past the parsing of the message bits (line 164).
ExtractNeverReturns ==
  \A o \in Objs :
    call[o].op = "extract"
    => /\ call[o].outcome \notin {"ok", AuthenticationError, "UnicodeDecodeError"}
       /\ call[o].messageStr = <<>>
       /\ call[o].returned = Nothing
       /\ call[o].shown = Nothing

\* The signature in the image of o's call cannot verify: a signature bit was
\* flipped, or the public key is not of the pair that signed.
SignatureInvalid(o) ==
  \/ call[o].source.kind = "flipped"
       /\ call[o].source.at \in SignatureAt(call[o].source.meta)
  \/ OnStego(o) /\ IsKey(call[o].publicKey)
       /\ call[o].publicKey.id # call[o].source.meta.signer

\* C10 (authentication failure keeps the plaintext): an extract that has ended
\* on a stego image whose signature cannot verify, with the matching private
\* key, raised an error that carries the decoded message, after it had read the
\* message and the KeyBits signature positions.
C10_AuthFailureShowsMessage ==
  \A o \in Objs :
    (/\ Ended(o, "extract")
     /\ OnStego(o)
     /\ Configured(o)
     /\ DecryptKeyMatches(o)
     /\ SignatureInvalid(o))
    => /\ call[o].shown = Some(call[o].source.meta.msg)
       /\ Len(call[o].used) = Len(call[o].source.meta.used)

\* A step of object o's conceal call: the call's locals change and the call is a
\* conceal afterwards.
ConcealStep(o) == call'[o].op = "conceal" /\ call'[o] # call[o]

\* The step ends the call.
EndsWith(o, outcomes) == call'[o].pc = "idle" /\ call'[o].outcome \in outcomes

C12_SetKeysChecksTypes ==
  [][\A o \in Objs, private \in PrivArgs, public \in PubArgs :
       SetKeys(o, private, public)
       => IF private \in PrivKeys /\ public \in PubKeys
          THEN /\ ~SetKeysRaises(private, public)
               /\ obj'[o].privateKey = private
               /\ obj'[o].publicKey = public
          ELSE /\ SetKeysRaises(private, public)
               /\ obj' = obj]_vars

\* The parities an extract call has read in its message phase, in order.
MessageBitsRead(c) ==
  [k \in 1..(Len(c.used) - KeyBits) |-> At(c.im, c.used[KeyBits + k]) % 2]

\* C13 (terminator detection): when the message loop of extract has stopped, at
\* least 8 zero bits in a row have just been read, the number of message bits
\* read is a multiple of 8, and the accumulated bit string holds every bit read,
\* in order.
C13_TerminatorDetected ==
  \A o \in Objs :
    (/\ o \in alive
     /\ call[o].op = "extract"
     /\ call[o].pc = "extract_message"
     /\ ~MessageLoopGoesOn(call[o]))
    => /\ call[o].numZeros >= 8
       /\ (Len(call[o].used) - KeyBits) % 8 = 0
       /\ call[o].messageStr = MessageBitsRead(call[o])

\* C14 (on-pixel layout): at every step of a conceal call the first KeyBits
\* recorded indices are stride * i and every recorded position holds the bit
\* written there (so no later write undid an earlier one); at the end of a
\* successful call the bits written are the KeyBits seed-cipher bits, the
\* message bits followed by 8 zero bits, and KeyBits signature bits, one
\* position each.
C14_Layout ==
  \A o \in Objs :
    (o \in alive /\ call[o].op = "conceal" /\ call[o].used # <<>>)
    => LET c == call[o]
           stride == RoundHalfEven(Len(c.im), KeyBits)
       IN /\ \A j \in DOMAIN c.used :
               /\ j <= KeyBits => c.used[j] = stride * (j - 1)
               /\ At(c.im, c.used[j]) % 2 = WrittenBit(c, j)
          /\ NoDuplicates(c.used)
          /\ (c.pc = "idle" /\ c.outcome = "ok")
               => /\ Len(c.secret) = KeyBits + 8 * Len(c.message) + 8
                  /\ SubSeq(c.secret, KeyBits + 1, Len(c.secret))
                       = bytes_to_bits(c.message, TRUE)
                  /\ Len(c.signature) = KeyBits
                  /\ Len(c.used) = Len(c.secret) + KeyBits

C14_Witness ==
  \E o \in Objs :
    /\ Ended(o, "conceal")
    /\ call[o].outcome = "ok"
    /\ call[o].message # <<>>
    /\ Len(call[o].used) = 2 * KeyBits + 8 * Len(call[o].message) + 8
    /\ \E j \in DOMAIN call[o].used :
         /\ j > KeyBits
         /\ At(call[o].im, call[o].used[j]) # At(call[o].image.px, call[o].used[j])

\* C15 (replay equivalence): an extract that has ended on the unmodified stego
\* image of a conceal, after it seeded the generator with the conceal's seed,
\* has recorded the very indices the conceal recorded, in order: the seed
\* channel, the message phase and KeyBits signature indices.
C15_ReplayEquivalence ==
  \A o \in Objs :
    (/\ Ended(o, "extract")
     /\ call[o].source.kind = "stego"
     /\ DecryptKeyMatches(o)
     /\ Len(call[o].used) > KeyBits)
    => call[o].used = call[o].source.meta.used

\* What does hold of the two draw loops: at every step of an extract on an
\* unmodified stego image, the indices recorded so far are those the conceal
\* recorded first.
ReplayIsPrefix ==
  \A o \in Objs :
    (o \in alive /\ call[o].op = "extract" /\ call[o].source.kind = "stego")
    => /\ Len(call[o].used) <= Len(call[o].source.meta.used)
       /\ call[o].used = SubSeq(call[o].source.meta.used, 1, Len(call[o].used))

\* C16 (scheduler exhaustion): no call is ever left drawing indices with every
\* index of its buffer used; a draw asked for then ends the call with an error.
C16_ExhaustionFails ==
  \A o \in Objs :
    AllUsed(call[o].used, Len(call[o].im)) /\ call[o].im # <<>>
    => call[o].pc # "spin"

\* C17 (extract terminates): under fair execution of its steps, every extract
\* call that has begun eventually ends, by returning or by raising.
C17_ExtractTerminates ==
  \A o \in Objs :
    (call[o].op = "extract" /\ call[o].pc # "idle") ~> (call[o].pc = "idle")

\* What does hold: every extract call that has begun eventually ends or is left
\* drawing with every index used.
ExtractEndsOrSpins ==
  \A o \in Objs :
    (call[o].pc \in {"extract_seed", "extract_message"})
      ~> (call[o].pc \in {"idle", "spin"})

\* C18 (bits to bytes is exact): the bytes derived from the bits of a byte
\* sequence b (8 * Len(b) bits, terminator stripped) are b itself, Len(b) bytes
\* with leading zero bytes kept, for every b including the empty one.
C18_BitsToBytesExact ==
  \A o \in Objs :
    call[o].op = "decode"
    => /\ call[o].outcome = "ok"
       /\ Len(call[o].returned.bytes) = (Len(call[o].secret) - 8) \div 8
       /\ call[o].returned = Some(call[o].message)

\* What does hold: byte sequences that do not begin with a zero byte come back
\* as they were.
BitsToBytesExactWithoutLeadingZero ==
  \A o \in Objs :
    (call[o].op = "decode" /\ call[o].message # <<>> /\ call[o].message[1] # 0)
    => call[o].returned = Some(call[o].message)

\* The call of o has passed conceal's capacity check, or is an extract on a
\* buffer that passes it for some message.
PassesCapacityCheck(o) ==
  \/ call[o].op = "conceal" /\ call[o].secret # <<>>
       /\ Len(call[o].im) >= Len(call[o].secret) + KeyBits
  \/ call[o].op = "extract" /\ Len(call[o].im) >= Need(0)

\* C19 (seed-channel indices in bounds): in a conceal or extract call on a
\* buffer that passes the capacity check, every seed-channel index stride * i,
\* i < KeyBits, lies inside the buffer, and the call does not end in IndexError.
C19_SeedChannelInBounds ==
  \A o \in Objs :
    (o \in alive /\ PassesCapacityCheck(o))
    => /\ \A i \in 0..(KeyBits - 1) :
            /\ 0 <= CipherIndex(Len(call[o].im), i)
            /\ CipherIndex(Len(call[o].im), i) < Len(call[o].im)
       /\ call[o].outcome # "IndexError"

\* C20 (fixed-width channels recovered): in an extract on an unmodified stego
\* image, the bytes handed to decryption are the KeyBytes ciphertext bytes the
\* conceal embedded, and with the matching private key the call does not end
\* in the incompatible-key error.
C20_CipherRecovered ==
  \A o \in Objs :
    (/\ o \in alive
     /\ call[o].op = "extract"
     /\ call[o].source.kind = "stego"
     /\ Len(call[o].seedStr) = KeyBits)
    => /\ call[o].seedStr = call[o].source.meta.cipher
       /\ bytes_to_bits(IntToMinBytes(BitsToInt(call[o].seedStr)), FALSE)
            = call[o].source.meta.cipher
       /\ (DecryptKeyMatches(o) /\ call[o].pc = "idle")
            => call[o].outcome # IncompatibleKeyError

====
